---- MODULE Spec2Model ----
(***************************************************************************)
(* Model of the OCI block volume provisioner                               *)
(* (pkg/provisioner/block/block.go): blockProvisioner.Provision with its   *)
(* poll loop waitForVolumeAvailable, blockProvisioner.Delete, and the size *)
(* helpers roundUpSize and volumeRoundingEnabled.                          *)
(*                                                                         *)
(* Time is a global clock in seconds.  A client call is one step taken at  *)
(* the instant the call returns; the time a call or the scheduler takes is *)
(* the clock advancing between steps.                                      *)
(***************************************************************************)
EXTENDS Integers, Sequences, FiniteSets, TLC

\* ------------------------------------------------------------------ bounds
\* last instant of the clock
MaxTime == 11
\* width, in bits, of the model's signed integers (stands for Go's int64)
IntBits == 24
\* capacities and unit sizes 0..SmallRange (and the same distance below the
\* largest integer) are the inputs of the roundUpSize specification
SmallRange == 7

\* --------------------------------------------------------- program constants
\* time.Second*5, the interval of wait.PollImmediate
PollInterval == 5
\* 1024*1024, the allocation unit Provision passes to roundUpSize
AllocationUnit == 1024 * 1024

OCIVolumeID == "ociVolumeID"
ReadWriteOnce == "ReadWriteOnce"

\* the Provision operations: one runs alone, two run concurrently
Procs == {1, 2}

\* ------------------------------------------------------------ integer width
MaxInt64 == 2 ^ (IntBits - 1) - 1

\* two's complement wrap of a mathematical integer into the signed width
Wrap(x) ==
    LET m == x % (2 ^ IntBits)
    IN IF m >= 2 ^ (IntBits - 1) THEN m - 2 ^ IntBits ELSE m

\* Go's integer division truncates toward zero
GoDiv(a, b) == IF a >= 0 THEN a \div b ELSE -((-a) \div b)

\* faulty variant: the division rounds down
roundUpSize_RoundsDown(volumeSizeBytes, allocationUnitBytes) ==
    GoDiv(volumeSizeBytes, allocationUnitBytes)

\* func roundUpSize(volumeSizeBytes int64, allocationUnitBytes int64) int64
roundUpSize(volumeSizeBytes, allocationUnitBytes) ==
    GoDiv(Wrap(volumeSizeBytes + allocationUnitBytes - 1), allocationUnitBytes)

\* strconv.ParseBool on the values a storage class parameter takes here
ParseBool(s) ==
    IF s \in {"1", "t", "T", "TRUE", "true", "True"} THEN [ok |-> TRUE, value |-> TRUE]
    ELSE IF s \in {"0", "f", "F", "FALSE", "false", "False"} THEN [ok |-> TRUE, value |-> FALSE]
    ELSE [ok |-> FALSE, value |-> FALSE]

\* func volumeRoundingEnabled(param map[string]string) bool
\* param is <<>> when the key is absent, <<v>> when it is present
volumeRoundingEnabled(param) ==
    IF param # <<>> /\ ParseBool(param[1]).ok /\ ~ParseBool(param[1]).value
    THEN FALSE
    ELSE TRUE

\* func resolveFSType(options controller.VolumeOptions) string
resolveFSType(param) == IF param # <<>> THEN param[1] ELSE "ext4"

\* ------------------------------------------------------------------ errors
\* an error value: what kind it is and the text that tells instances apart
Error(kind, detail) == [kind |-> kind, detail |-> detail]
NoError == Error("nil", "")

\* wait.ErrWaitTimeout, what wait.PollImmediate returns when it gives up
ErrWaitTimeout == Error("ErrWaitTimeout", "timed out waiting for the condition")
\* ctx.Err() of a context whose deadline has passed
DeadlineExceeded == Error("DeadlineExceeded", "context deadline exceeded")
\* an error of the network or of the service behind a client call
TransportError == Error("TransportError", "connection reset")
ServiceError(code) == Error("ServiceError", code)
\* the error instancemeta.Interface.Get returns
MetadataError == Error("MetadataError", "metadata unavailable")

\* provisioner.IsNotFound: the provider-level not-found classification
NotFoundError == Error("NotFound", "404")
IsNotFound(e) == e.kind = "NotFound"

\* ------------------------------------------------------ provider lifecycle
\* core.VolumeLifecycleState
LifecycleStates ==
    {"PROVISIONING", "RESTORING", "AVAILABLE", "TERMINATING", "TERMINATED", "FAULTY"}
FailedStates == {"FAULTY", "TERMINATED", "TERMINATING"}
NonTerminalStates == LifecycleStates \ (FailedStates \cup {"AVAILABLE"})

\* ------------------------------------------------------------------- state
VARIABLES
    block,        \* the blockProvisioner: its configuration and client timeout
    environ,      \* OCI_SHORT_REGION: <<>> unset, <<region>> set
    now,          \* the clock, in seconds
    horizon,      \* the instant up to which the run is observed
    volumes,      \* the provider: identifiers of the volumes that exist
    nextId,       \* the provider: the identifier the next created volume gets
    procs,        \* the Provision operations the caller invokes
    options,      \* per operation: controller.VolumeOptions (the request)
    pc,           \* per operation: where Provision stands
    ctxDeadline,  \* per operation: deadline of ctx (line 189)
    capacity,     \* per operation: the local capacity
    volumeDetails,\* per operation: core.CreateVolumeDetails, <<>> before it is built
    newVolume,    \* per operation: newVolume.Id, 0 before CreateVolume returned
    pollStart,    \* per operation: when the poll's timer and ticker started, -1 before
    nextTick,     \* per operation: when the ticker fires next
    poll,         \* per operation: the state of the poll
    err,          \* per operation: the local err after waitForVolumeAvailable
    ret,          \* per operation: what Provision returned, <<>> before
    calls,        \* per operation: the client calls made, in order
    deletion,     \* the last Delete invocation: its argument, calls and result
    sizeIn,       \* roundUpSize: the arguments of the last call
    sizeOut       \* roundUpSize: its result

provisionVars ==
    <<procs, options, pc, ctxDeadline, capacity, volumeDetails, newVolume,
      pollStart, nextTick, poll, err, ret, calls>>
vars ==
    <<block, environ, now, horizon, volumes, nextId, provisionVars, deletion,
      sizeIn, sizeOut>>

\* ------------------------------------------------- Provision: pure parts
Min(a, b) == IF a <= b THEN a ELSE b

\* faulty variant: only the first access mode is looked at
ValidateAccessModes_FirstOnly(accessModes) ==
    IF accessModes # <<>> /\ accessModes[1] # ReadWriteOnce
    THEN Error("InvalidAccessMode", accessModes[1])
    ELSE NoError

\* for _, accessMode := range options.PVC.Spec.AccessModes: the error of the
\* first mode that is not ReadWriteOnce, NoError when the loop ends
ValidateAccessModes(accessModes) ==
    LET bad == {i \in DOMAIN accessModes : accessModes[i] # ReadWriteOnce}
    IN IF bad = {}
       THEN NoError
       ELSE Error("InvalidAccessMode",
                  accessModes[CHOOSE i \in bad : \A j \in bad : i <= j])

\* faulty variant: the size is raised to the minimum, the capacity is not
VolumeSize_KeepsCapacity(o, blk) ==
    IF /\ volumeRoundingEnabled(o.roundingParam)
       /\ blk.volumeRoundingEnabled
       /\ blk.minVolumeSize > o.storage[1]
    THEN [volSizeMB |-> roundUpSize(blk.minVolumeSize, AllocationUnit),
          capacity |-> o.storage[1]]
    ELSE [volSizeMB |-> roundUpSize(o.storage[1], AllocationUnit),
          capacity |-> o.storage[1]]

\* lines 160-174: volSizeMB and capacity after the minimum-size floor
VolumeSize(o, blk) ==
    IF /\ volumeRoundingEnabled(o.roundingParam)
       /\ blk.volumeRoundingEnabled
       /\ blk.minVolumeSize > o.storage[1]
    THEN [volSizeMB |-> roundUpSize(blk.minVolumeSize, AllocationUnit),
          capacity |-> blk.minVolumeSize]
    ELSE [volSizeMB |-> roundUpSize(o.storage[1], AllocationUnit),
          capacity |-> o.storage[1]]

\* faulty variant: the backup annotation is not carried into the payload
CreateVolumeDetails_NoSource(o, volSizeMB) ==
    [SizeInMBs |-> volSizeMB, SourceDetails |-> <<>>]

\* lines 176-187: the creation payload
CreateVolumeDetails(o, volSizeMB) ==
    [SizeInMBs |-> volSizeMB, SourceDetails |-> o.backup]

\* context.WithTimeout(parent, timeout) at the current instant: a child never
\* outlives its parent
WithTimeout(parentDeadline, timeout, t) == Min(parentDeadline, t + timeout)

\* faulty variant: TERMINATING is not among the states that end the poll
isVolumeReady_TerminatingPending(resp) ==
    IF resp.err # NoError THEN [ready |-> FALSE, err |-> resp.err]
    ELSE IF resp.state = "AVAILABLE" THEN [ready |-> TRUE, err |-> NoError]
    ELSE IF resp.state \in {"FAULTY", "TERMINATED"}
         THEN [ready |-> FALSE, err |-> Error("LifecycleState", resp.state)]
    ELSE [ready |-> FALSE, err |-> NoError]

\* the closure isVolumeReady, lines 110-122, on the response of GetVolume
isVolumeReady(resp) ==
    IF resp.err # NoError THEN [ready |-> FALSE, err |-> resp.err]
    ELSE IF resp.state = "AVAILABLE" THEN [ready |-> TRUE, err |-> NoError]
    ELSE IF resp.state \in FailedStates
         THEN [ready |-> FALSE, err |-> Error("LifecycleState", resp.state)]
    ELSE [ready |-> FALSE, err |-> NoError]

\* faulty variant: an error of the status query is taken for "not yet ready"
Condition_RetriesOnError(resp) ==
    LET r == isVolumeReady(resp)
    IN IF r.err # NoError /\ resp.err = NoError
       THEN [ready |-> FALSE, err |-> Error("FailedToProvision", r.err.detail)]
       ELSE [ready |-> r.ready, err |-> NoError]

\* the condition handed to wait.PollImmediate, lines 125-131
Condition(resp) ==
    LET r == isVolumeReady(resp)
    IN IF r.err # NoError
       THEN [ready |-> FALSE, err |-> Error("FailedToProvision", r.err.detail)]
       ELSE [ready |-> r.ready, err |-> NoError]

\* faulty variant: a poll that gives up reports the state it saw last the way
\* a failed state is reported
PollOutcome_TimeoutAsFailure(resp, closed) ==
    LET c == Condition(resp)
    IN IF c.err # NoError
       THEN [state |-> IF c.err.detail \in FailedStates THEN "Failed" ELSE "Error",
             err |-> c.err]
       ELSE IF c.ready THEN [state |-> "Ready", err |-> NoError]
       ELSE IF closed
       THEN [state |-> "TimedOut", err |-> Error("FailedToProvision", "TERMINATED")]
       ELSE [state |-> "Polling", err |-> NoError]

\* what one run of the condition makes of the poll: closed tells that the
\* poll's timeout has closed its channel (wait.WaitFor runs the condition once
\* more, then gives up)
PollOutcome(resp, closed) ==
    LET c == Condition(resp)
    IN IF c.err # NoError
       THEN [state |-> IF c.err.detail \in FailedStates THEN "Failed" ELSE "Error",
             err |-> c.err]
       ELSE IF c.ready THEN [state |-> "Ready", err |-> NoError]
       ELSE IF closed THEN [state |-> "TimedOut", err |-> ErrWaitTimeout]
       ELSE [state |-> "Polling", err |-> NoError]

\* faulty variant: the error of a failed compensating delete is returned
CleanupReturn_DeleteError(pollErr, deleteErr) ==
    [pv |-> <<>>, err |-> IF deleteErr # NoError THEN deleteErr ELSE pollErr]

\* lines 200-209: what Provision returns after the compensating delete
CleanupReturn(pollErr, deleteErr) == [pv |-> <<>>, err |-> pollErr]

\* lines 222-247: the PersistentVolume
PersistentVolume(id, region, o, cap) ==
    [Name |-> id,
     ociVolumeID |-> <<id>>,
     Region |-> region,
     AccessModes |-> o.accessModes,
     Capacity |-> cap,
     FSType |-> resolveFSType(o.fsType)]

\* ------------------------------------------------------- the client's answers
GetResponse(e, state) == [err |-> e, state |-> state]

\* the states the provider reports of a volume: RESTORING only of one that is
\* created from a backup
ReportedStates(details) ==
    IF details.SourceDetails = <<>> THEN LifecycleStates \ {"RESTORING"}
    ELSE LifecycleStates

\* GetVolume under a context with the given deadline
GetVolumeResponses(deadline, t, details) ==
    IF t >= deadline
    THEN {GetResponse(DeadlineExceeded, "")}
    ELSE {GetResponse(NoError, s) : s \in ReportedStates(details)}
         \cup {GetResponse(TransportError, "")}

\* CreateVolume under a context with the given deadline: the provider creates
\* no volume of a size that is not positive
CreateVolumeErrors(deadline, t, details) ==
    IF t >= deadline THEN {DeadlineExceeded}
    ELSE IF details.SizeInMBs <= 0 THEN {ServiceError("400"), TransportError}
    ELSE {NoError, ServiceError("400"), TransportError}

\* DeleteVolume as Provision's cleanup sees it
CleanupDeleteErrors(deadline, t) ==
    IF t >= deadline THEN {DeadlineExceeded}
    ELSE {NoError, TransportError}

\* a client call: closed tells a status query made after the poll's timer fired
Call(op, id, res, closed) == [op |-> op, id |-> id, res |-> res, closed |-> closed]
ResultOf(e) == IF e = NoError THEN "ok" ELSE e.kind

\* whether the poll's timeout has run out
TimerFired(p) == pollStart[p] >= 0 /\ now >= pollStart[p] + block.timeout

\* ------------------------------------------------------ Provision: the steps
\* ctx := context.Background() carries no deadline
BackgroundDeadline == 2 ^ 20

Returned(p, r) ==
    /\ ret' = [ret EXCEPT ![p] = r]
    /\ pc' = [pc EXCEPT ![p] = "done"]

\* lines 146-190: access modes, requested size, floor, payload, ctx
ProvisionBegin(p) ==
    /\ p \in procs
    /\ pc[p] = "idle"
    /\ LET o == options[p]
           e == ValidateAccessModes(o.accessModes)
       IN IF e # NoError
          THEN /\ Returned(p, [pv |-> <<>>, err |-> e])
               /\ UNCHANGED <<capacity, volumeDetails, ctxDeadline>>
          ELSE IF o.storage = <<>>
          THEN /\ Returned(p, [pv |-> <<>>, err |-> Error("NoVolumeSize", "")])
               /\ UNCHANGED <<capacity, volumeDetails, ctxDeadline>>
          ELSE LET size == VolumeSize(o, block)
               IN /\ capacity' = [capacity EXCEPT ![p] = size.capacity]
                  /\ volumeDetails' =
                        [volumeDetails EXCEPT
                            ![p] = <<CreateVolumeDetails(o, size.volSizeMB)>>]
                  /\ ctxDeadline' =
                        [ctxDeadline EXCEPT
                            ![p] = WithTimeout(BackgroundDeadline, block.clientTimeout, now)]
                  /\ pc' = [pc EXCEPT ![p] = "create"]
                  /\ UNCHANGED ret
    /\ UNCHANGED <<block, environ, now, horizon, volumes, nextId, procs, options, newVolume,
                   pollStart, nextTick, poll, err, calls, deletion, sizeIn, sizeOut>>

\* faulty variant: a failed create call is followed by the compensating delete
CreateVolume_CleanupOnError(p) ==
    /\ p \in procs
    /\ pc[p] = "create"
    /\ \E e \in CreateVolumeErrors(ctxDeadline[p], now, volumeDetails[p][1]) :
          IF e = NoError
          THEN /\ newVolume' = [newVolume EXCEPT ![p] = nextId]
               /\ nextId' = nextId + 1
               /\ volumes' = volumes \cup {nextId}
               /\ calls' = [calls EXCEPT ![p] = Append(@, Call("create", nextId, "ok", FALSE))]
               /\ poll' = [poll EXCEPT ![p] = "Polling"]
               /\ pc' = [pc EXCEPT ![p] = "poll"]
               /\ err' = err
          ELSE /\ calls' = [calls EXCEPT ![p] = Append(@, Call("create", 0, ResultOf(e), FALSE))]
               /\ err' = [err EXCEPT ![p] = e]
               /\ pc' = [pc EXCEPT ![p] = "cleanup"]
               /\ UNCHANGED <<newVolume, nextId, volumes, poll>>
    /\ UNCHANGED <<block, environ, now, horizon, procs, options, ctxDeadline, capacity,
                   volumeDetails, pollStart, nextTick, ret, deletion, sizeIn, sizeOut>>

\* lines 192-198: CreateVolume under ctx
CreateVolume(p) ==
    /\ p \in procs
    /\ pc[p] = "create"
    /\ \E e \in CreateVolumeErrors(ctxDeadline[p], now, volumeDetails[p][1]) :
          IF e = NoError
          THEN /\ newVolume' = [newVolume EXCEPT ![p] = nextId]
               /\ nextId' = nextId + 1
               /\ volumes' = volumes \cup {nextId}
               /\ calls' = [calls EXCEPT ![p] = Append(@, Call("create", nextId, "ok", FALSE))]
               /\ poll' = [poll EXCEPT ![p] = "Polling"]
               /\ pc' = [pc EXCEPT ![p] = "poll"]
               /\ UNCHANGED ret
          ELSE /\ calls' = [calls EXCEPT ![p] = Append(@, Call("create", 0, ResultOf(e), FALSE))]
               /\ Returned(p, [pv |-> <<>>, err |-> e])
               /\ UNCHANGED <<newVolume, nextId, volumes, poll>>
    /\ UNCHANGED <<block, environ, now, horizon, procs, options, ctxDeadline, capacity,
                   volumeDetails, pollStart, nextTick, err, deletion, sizeIn, sizeOut>>

\* faulty variant: the volume asked for is the one the provider created last
PollTarget_LastCreated(p) == nextId - 1

\* the volume the status queries of operation p ask for
PollTarget(p) == newVolume[p]

\* faulty variant: a poll that timed out is taken for a poll that succeeded
AfterPoll_TimedOutProceeds(state) ==
    CASE state = "Polling" -> "wait"
      [] state \in {"Ready", "TimedOut"} -> "region"
      [] OTHER -> "cleanup"

\* faulty variant: the test of err is inverted
AfterPoll_Inverted(state) ==
    CASE state = "Polling" -> "wait"
      [] state = "Ready" -> "cleanup"
      [] OTHER -> "region"

\* faulty variant: only a Failed or TimedOut poll leads to the compensating
\* delete
AfterPoll_ErrorSkipsCleanup(state) ==
    CASE state = "Polling" -> "wait"
      [] state = "Ready" -> "region"
      [] state = "Error" -> "done"
      [] OTHER -> "cleanup"

\* faulty variant: after a report that is not terminal the poll blocks, it
\* neither queries again nor gives up
AfterPoll_Blocks(state) ==
    CASE state = "Polling" -> "blocked"
      [] state = "Ready" -> "region"
      [] OTHER -> "cleanup"

\* where Provision goes when the poll is in the given state
AfterPoll(state) ==
    CASE state = "Polling" -> "wait"
      [] state = "Ready" -> "region"
      [] OTHER -> "cleanup"

\* one run of the condition: GetVolume under a child of ctx (line 105), then
\* what wait.PollImmediate makes of the answer
RunCondition(p, closed) ==
    \E resp \in GetVolumeResponses(
                    WithTimeout(ctxDeadline[p], block.clientTimeout, now), now,
                    volumeDetails[p][1]) :
        LET out == PollOutcome(resp, closed)
        IN /\ calls' = [calls EXCEPT
                          ![p] = Append(@, Call("get", PollTarget(p),
                                                IF resp.err = NoError THEN resp.state
                                                ELSE resp.err.kind,
                                                closed))]
           /\ poll' = [poll EXCEPT ![p] = out.state]
           /\ err' = [err EXCEPT ![p] = out.err]
           /\ pc' = [pc EXCEPT ![p] = AfterPoll(out.state)]

\* wait.PollImmediate runs the condition at once, and only then starts the
\* ticker and the timer of the poll
PollImmediate(p) ==
    /\ p \in procs
    /\ pc[p] = "poll"
    /\ RunCondition(p, FALSE)
    /\ pollStart' = [pollStart EXCEPT ![p] = IF poll'[p] = "Polling" THEN now ELSE @]
    /\ nextTick' = [nextTick EXCEPT ![p] = now + PollInterval]
    /\ UNCHANGED <<block, environ, now, horizon, volumes, nextId, procs, options, ctxDeadline,
                   capacity, volumeDetails, newVolume, ret, deletion, sizeIn, sizeOut>>

\* the ticker fired: the condition runs again; ticks missed meanwhile are dropped
PollTick(p) ==
    /\ p \in procs
    /\ pc[p] = "wait"
    /\ now >= nextTick[p]
    /\ RunCondition(p, FALSE)
    /\ nextTick' =
          [nextTick EXCEPT
              ![p] = @ + PollInterval * ((now - @) \div PollInterval + 1)]
    /\ UNCHANGED <<block, environ, now, horizon, volumes, nextId, procs, options, ctxDeadline,
                   capacity, volumeDetails, newVolume, pollStart, ret, deletion,
                   sizeIn, sizeOut>>

\* the timer fired: the poll's channel is closed, the condition runs one last
\* time and the poll returns wait.ErrWaitTimeout unless it is met
PollTimeout(p) ==
    /\ p \in procs
    /\ pc[p] = "wait"
    /\ TimerFired(p)
    /\ RunCondition(p, TRUE)
    /\ UNCHANGED <<block, environ, now, horizon, volumes, nextId, procs, options, ctxDeadline,
                   capacity, volumeDetails, newVolume, pollStart, nextTick, ret,
                   deletion, sizeIn, sizeOut>>

\* lines 200-209: the compensating delete under a child of ctx, then return
Cleanup(p) ==
    /\ p \in procs
    /\ pc[p] = "cleanup"
    /\ \E e \in CleanupDeleteErrors(
                    WithTimeout(ctxDeadline[p], block.clientTimeout, now), now) :
          /\ calls' = [calls EXCEPT
                          ![p] = Append(@, Call("delete", PollTarget(p), ResultOf(e), FALSE))]
          /\ volumes' = IF e = NoError THEN volumes \ {PollTarget(p)} ELSE volumes
          /\ Returned(p, CleanupReturn(err[p], e))
    /\ UNCHANGED <<block, environ, now, horizon, nextId, procs, options, ctxDeadline, capacity,
                   volumeDetails, newVolume, pollStart, nextTick, poll, err, deletion,
                   sizeIn, sizeOut>>

\* faulty variant: a failed metadata lookup is followed by a delete of the
\* volume
ResolveRegion_DeletesOnError(p) ==
    /\ p \in procs
    /\ pc[p] = "region"
    /\ IF environ # <<>>
       THEN /\ Returned(p, [pv |-> <<PersistentVolume(newVolume[p], environ[1],
                                                      options[p], capacity[p])>>,
                            err |-> NoError])
            /\ UNCHANGED <<calls, volumes>>
       ELSE \E e \in {NoError, MetadataError} :
               IF e = NoError
               THEN /\ calls' = [calls EXCEPT
                                    ![p] = Append(@, Call("metadata", 0, "ok", FALSE))]
                    /\ Returned(p, [pv |-> <<PersistentVolume(newVolume[p], "us-phoenix-1",
                                                              options[p], capacity[p])>>,
                                    err |-> NoError])
                    /\ UNCHANGED volumes
               ELSE /\ calls' = [calls EXCEPT
                                    ![p] = @ \o <<Call("metadata", 0, ResultOf(e), FALSE),
                                                  Call("delete", newVolume[p], "ok", FALSE)>>]
                    /\ volumes' = volumes \ {newVolume[p]}
                    /\ Returned(p, [pv |-> <<>>, err |-> e])
    /\ UNCHANGED <<block, environ, now, horizon, nextId, procs, options, ctxDeadline,
                   capacity, volumeDetails, newVolume, pollStart, nextTick, poll, err,
                   deletion, sizeIn, sizeOut>>

\* lines 211-250: filesystem type, region, the PersistentVolume
ResolveRegion(p) ==
    /\ p \in procs
    /\ pc[p] = "region"
    /\ IF environ # <<>>
       THEN /\ Returned(p, [pv |-> <<PersistentVolume(newVolume[p], environ[1],
                                                      options[p], capacity[p])>>,
                            err |-> NoError])
            /\ UNCHANGED calls
       ELSE \E e \in {NoError, MetadataError} :
               /\ calls' = [calls EXCEPT
                               ![p] = Append(@, Call("metadata", 0, ResultOf(e), FALSE))]
               /\ Returned(p, IF e = NoError
                              THEN [pv |-> <<PersistentVolume(newVolume[p], "us-phoenix-1",
                                                              options[p], capacity[p])>>,
                                    err |-> NoError]
                              ELSE [pv |-> <<>>, err |-> e])
    /\ UNCHANGED <<block, environ, now, horizon, volumes, nextId, procs, options, ctxDeadline,
                   capacity, volumeDetails, newVolume, pollStart, nextTick, poll, err,
                   deletion, sizeIn, sizeOut>>

\* a second passes while some operation is under way
Tick ==
    /\ now < horizon
    /\ \E p \in procs : pc[p] \notin {"idle", "done"}
    /\ now' = now + 1
    /\ UNCHANGED <<block, environ, horizon, volumes, nextId, provisionVars, deletion,
                   sizeIn, sizeOut>>

\* time passes while some operation is under way: up to the horizon, and
\* beyond it for as long as a poll waits for its timer
Elapse ==
    /\ \E p \in procs : pc[p] \notin {"idle", "done"}
    /\ \/ now < horizon
       \/ \E p \in procs : pc[p] = "wait" /\ ~TimerFired(p)
    /\ now' = now + 1
    /\ UNCHANGED <<block, environ, horizon, volumes, nextId, provisionVars, deletion,
                   sizeIn, sizeOut>>

\* ------------------------------------------------------------------ Delete
\* http.StatusNotFound
StatusNotFound == 404

\* what DeleteVolume answers: the status of the raw response (0: there is
\* none) and the error
DeleteResponses ==
    [status : {0, 204, 401, StatusNotFound, 500},
     err : {NoError, NotFoundError, ServiceError("409"), TransportError}]

\* faulty variant: the status of the raw response is not looked at
DeleteReturn_ErrorOnly(resp) ==
    IF IsNotFound(resp.err) THEN NoError ELSE resp.err

\* lines 268-279: the classification of DeleteVolume's answer
DeleteReturn(resp) ==
    IF resp.status # 0 /\ resp.status = StatusNotFound THEN NoError
    ELSE IF IsNotFound(resp.err) THEN NoError
    ELSE resp.err

\* faulty variant: a delete call that failed is made a second time
Delete_RetriesOnError(volume) ==
    /\ IF volume.ociVolumeID = <<>>
       THEN /\ deletion' = [volume |-> <<volume>>, resp |-> <<>>, calls |-> <<>>,
                            ret |-> Error("AnnotationNotFound",
                                          "volumeid annotation not found on PV")]
            /\ UNCHANGED volumes
       ELSE \E resp \in DeleteResponses :
               /\ deletion' =
                     [volume |-> <<volume>>,
                      resp |-> <<resp>>,
                      calls |-> IF DeleteReturn(resp) = NoError
                                THEN <<Call("delete", volume.ociVolumeID[1],
                                            ResultOf(resp.err), FALSE)>>
                                ELSE <<Call("delete", volume.ociVolumeID[1],
                                            ResultOf(resp.err), FALSE),
                                       Call("delete", volume.ociVolumeID[1],
                                            ResultOf(resp.err), FALSE)>>,
                      ret |-> DeleteReturn(resp)]
               /\ volumes' = IF resp.err = NoError /\ resp.status = 204
                             THEN volumes \ {volume.ociVolumeID[1]}
                             ELSE volumes
    /\ UNCHANGED <<block, environ, now, horizon, nextId, provisionVars, sizeIn, sizeOut>>

\* lines 253-280, the whole of Delete: one DeleteVolume call, made only when
\* the volume carries the ociVolumeID annotation
Delete(volume) ==
    /\ IF volume.ociVolumeID = <<>>
       THEN /\ deletion' = [volume |-> <<volume>>, resp |-> <<>>, calls |-> <<>>,
                            ret |-> Error("AnnotationNotFound",
                                          "volumeid annotation not found on PV")]
            /\ UNCHANGED volumes
       ELSE \E resp \in DeleteResponses :
               /\ deletion' =
                     [volume |-> <<volume>>,
                      resp |-> <<resp>>,
                      calls |-> <<Call("delete", volume.ociVolumeID[1],
                                       ResultOf(resp.err), FALSE)>>,
                      ret |-> DeleteReturn(resp)]
               /\ volumes' = IF resp.err = NoError /\ resp.status = 204
                             THEN volumes \ {volume.ociVolumeID[1]}
                             ELSE volumes
    /\ UNCHANGED <<block, environ, now, horizon, nextId, provisionVars, sizeIn, sizeOut>>

\* ------------------------------------------------------------- roundUpSize
\* a call of roundUpSize on its own
RoundUp(volumeSizeBytes, allocationUnitBytes) ==
    /\ sizeIn' = <<volumeSizeBytes, allocationUnitBytes>>
    /\ sizeOut' = roundUpSize(volumeSizeBytes, allocationUnitBytes)
    /\ UNCHANGED <<block, environ, now, horizon, volumes, nextId, provisionVars,
                   deletion>>

\* ------------------------------------------------------------------ inputs
Capacities ==
    {1, AllocationUnit, AllocationUnit + 1, 4 * AllocationUnit, MaxInt64 - 1}
MinVolumeSizes == {5 * AllocationUnit, MaxInt64}
Timeouts == {PollInterval, 2 * PollInterval}
ClientTimeouts == {PollInterval, 3 * PollInterval}

DefaultConfig ==
    [volumeRoundingEnabled |-> TRUE,
     minVolumeSize |-> 5 * AllocationUnit,
     timeout |-> PollInterval,
     clientTimeout |-> PollInterval]
\* the configurations that differ in the two timeouts
TimingConfigs ==
    {[DefaultConfig EXCEPT !.timeout = t, !.clientTimeout = c] :
        t \in Timeouts, c \in ClientTimeouts}
\* the configurations that differ in the rounding policy
SizeConfigs ==
    {[DefaultConfig EXCEPT !.volumeRoundingEnabled = e, !.minVolumeSize = m] :
        e \in BOOLEAN, m \in MinVolumeSizes}
Environs == {<<>>, <<"us-ashburn-1">>}

DefaultRequest ==
    [accessModes |-> <<ReadWriteOnce>>,
     storage |-> <<4 * AllocationUnit>>,
     roundingParam |-> <<>>,
     backup |-> <<>>,
     fsType |-> <<>>]
AccessModeLists ==
    {<<>>, <<ReadWriteOnce>>, <<"ReadOnlyMany">>,
     <<ReadWriteOnce, "ReadWriteMany">>, <<ReadWriteOnce, ReadWriteOnce>>}
RoundingParams == {<<>>, <<"true">>, <<"false">>, <<"no">>}

\* requests that differ in what Provision validates and passes through
ShapeRequests ==
    {[DefaultRequest EXCEPT !.accessModes = m] : m \in AccessModeLists}
    \cup {[DefaultRequest EXCEPT !.fsType = <<"xfs">>],
          [DefaultRequest EXCEPT !.storage = <<>>]}
\* requests that differ in size and rounding parameter
SizeRequests ==
    {[DefaultRequest EXCEPT !.storage = <<c>>, !.roundingParam = r] :
        c \in Capacities, r \in RoundingParams}
\* requests for a fresh volume and for one restored from a backup
SourceRequests ==
    {DefaultRequest, [DefaultRequest EXCEPT !.backup = <<"backup-1">>]}

Scenario(cfg, env, req) == [block |-> cfg, environ |-> env, request |-> req]

\* what one Provision operation is run on: every pair of timeouts with both
\* volume sources and both region sources, every request shape, and every
\* rounding policy with every size
Scenarios ==
    {Scenario(c, e, r) : c \in TimingConfigs, e \in Environs, r \in SourceRequests}
    \cup {Scenario(DefaultConfig, <<"us-ashburn-1">>, r) : r \in ShapeRequests}
    \cup {Scenario(c, <<"us-ashburn-1">>, r) : c \in SizeConfigs, r \in SizeRequests}

\* what concurrent Provision operations are run on
ConcurrentScenarios ==
    {Scenario([DefaultConfig EXCEPT !.clientTimeout = 3 * PollInterval], e,
              DefaultRequest) : e \in Environs}

\* the volumes Delete is called on: one Provision made, or one it did not
DeleteArguments ==
    {PersistentVolume(id, "us-phoenix-1", DefaultRequest, AllocationUnit) :
        id \in 1..(Cardinality(Procs) + 1)}
    \cup {[PersistentVolume(1, "us-phoenix-1", DefaultRequest, AllocationUnit)
              EXCEPT !.ociVolumeID = <<>>]}

\* what a pair of Provision operations, one without and one with the backup
\* annotation, is run on
PairScenarios ==
    {Scenario([DefaultConfig EXCEPT !.clientTimeout = 3 * PollInterval], e, r) :
        e \in Environs,
        r \in {DefaultRequest,
               [DefaultRequest EXCEPT !.fsType = <<"xfs">>,
                                      !.roundingParam = <<"false">>]}}

\* what a Provision operation that is run to its end is run on: every pair
\* of timeouts
LiveScenarios == {Scenario(c, <<>>, DefaultRequest) : c \in TimingConfigs}

RoundCapacities == (0..SmallRange) \cup {MaxInt64 - k : k \in 0..SmallRange}
RoundUnits == (1..SmallRange) \cup {AllocationUnit}

\* ----------------------------------------------------------- specifications
\* the state after NewBlockProvisioner, with the operations ps pending on
\* one of the scenarios and the volumes existing at the provider
InitWith(scenarios, ps, existing, until) ==
    /\ \E s \in scenarios :
          /\ block = s.block
          /\ environ = s.environ
          /\ options = [p \in Procs |-> s.request]
    /\ now = 0
    /\ horizon = until
    /\ volumes = existing
    /\ nextId = Cardinality(existing) + 1
    /\ procs = ps
    /\ pc = [p \in Procs |-> "idle"]
    /\ ctxDeadline = [p \in Procs |-> BackgroundDeadline]
    /\ capacity = [p \in Procs |-> 0]
    /\ volumeDetails = [p \in Procs |-> <<>>]
    /\ newVolume = [p \in Procs |-> 0]
    /\ pollStart = [p \in Procs |-> -1]
    /\ nextTick = [p \in Procs |-> 0]
    /\ poll = [p \in Procs |-> "None"]
    /\ err = [p \in Procs |-> NoError]
    /\ ret = [p \in Procs |-> [pv |-> <<>>, err |-> NoError]]
    /\ calls = [p \in Procs |-> <<>>]
    /\ deletion = [volume |-> <<>>, resp |-> <<>>, calls |-> <<>>, ret |-> NoError]
    /\ sizeIn = <<0, 1>>
    /\ sizeOut = 0

Init == InitWith(Scenarios, {1}, {}, MaxTime)

Next ==
    \/ \E p \in Procs : ProvisionBegin(p)
    \/ \E p \in Procs : CreateVolume(p)
    \/ \E p \in Procs : PollImmediate(p)
    \/ \E p \in Procs : PollTick(p)
    \/ \E p \in Procs : PollTimeout(p)
    \/ \E p \in Procs : Cleanup(p)
    \/ \E p \in Procs : ResolveRegion(p)
    \/ Tick

\* one Provision operation on every scenario
Spec == Init /\ [][Next]_vars

\* Provision operations running concurrently on one provisioner
\* observed until the first tick of the poll that started at once
InitConcurrent == InitWith(ConcurrentScenarios, Procs, {}, PollInterval)
SpecConcurrent == InitConcurrent /\ [][Next]_vars

\* two Provision operations on requests that differ in the backup annotation
\* only: the first asks for a fresh volume, the second for one from a backup
InitPair ==
    /\ \E s \in PairScenarios :
          /\ block = s.block
          /\ environ = s.environ
          /\ options = [p \in Procs |->
                           IF p = 1 THEN s.request
                           ELSE [s.request EXCEPT !.backup = <<"backup-1">>]]
    /\ now = 0
    /\ horizon = PollInterval
    /\ volumes = {}
    /\ nextId = 1
    /\ procs = Procs
    /\ pc = [p \in Procs |-> "idle"]
    /\ ctxDeadline = [p \in Procs |-> BackgroundDeadline]
    /\ capacity = [p \in Procs |-> 0]
    /\ volumeDetails = [p \in Procs |-> <<>>]
    /\ newVolume = [p \in Procs |-> 0]
    /\ pollStart = [p \in Procs |-> -1]
    /\ nextTick = [p \in Procs |-> 0]
    /\ poll = [p \in Procs |-> "None"]
    /\ err = [p \in Procs |-> NoError]
    /\ ret = [p \in Procs |-> [pv |-> <<>>, err |-> NoError]]
    /\ calls = [p \in Procs |-> <<>>]
    /\ deletion = [volume |-> <<>>, resp |-> <<>>, calls |-> <<>>, ret |-> NoError]
    /\ sizeIn = <<0, 1>>
    /\ sizeOut = 0
SpecPair == InitPair /\ [][Next]_vars

\* one Provision operation run to its end: the operation is scheduled, each
\* client call it makes returns, and time passes
InitLive == InitWith(LiveScenarios, {1}, {}, MaxTime)
NextLive ==
    \/ \E p \in Procs : ProvisionBegin(p)
    \/ \E p \in Procs : CreateVolume(p)
    \/ \E p \in Procs : PollImmediate(p)
    \/ \E p \in Procs : PollTick(p)
    \/ \E p \in Procs : PollTimeout(p)
    \/ \E p \in Procs : Cleanup(p)
    \/ \E p \in Procs : ResolveRegion(p)
    \/ Elapse
Fairness ==
    /\ \A p \in Procs :
          /\ WF_vars(ProvisionBegin(p))
          /\ WF_vars(CreateVolume(p))
          /\ WF_vars(PollImmediate(p))
          /\ WF_vars(PollTick(p))
          /\ WF_vars(PollTimeout(p))
          /\ WF_vars(Cleanup(p))
          /\ WF_vars(ResolveRegion(p))
    /\ WF_vars(Elapse)
SpecLive == InitLive /\ [][NextLive]_vars /\ Fairness

\* Delete invoked again and again
InitDelete ==
    InitWith({Scenario(DefaultConfig, <<>>, DefaultRequest)}, {}, Procs, 0)
NextDelete == \E volume \in DeleteArguments : Delete(volume)
SpecDelete == InitDelete /\ [][NextDelete]_vars

\* roundUpSize called on its own
InitRound == InitWith({Scenario(DefaultConfig, <<>>, DefaultRequest)}, {}, {}, 0)
NextRound ==
    \E c \in RoundCapacities, u \in RoundUnits : RoundUp(c, u)
SpecRound == InitRound /\ [][NextRound]_vars

\* ------------------------------------------------------- reading the calls
\* the status queries, and the delete calls, operation p has made
Gets(p) == SelectSeq(calls[p], LAMBDA c : c.op = "get")
Deletes(p) == SelectSeq(calls[p], LAMBDA c : c.op = "delete")
TerminalStates == FailedStates \cup {"AVAILABLE"}
EndedBadly == {"Failed", "TimedOut", "Error"}

\* ------------------------------------------------------------------- C1
\* C1 as stated: a descriptor carrying the created handle is returned only if
\* some status query for that handle reported AVAILABLE before the overall
\* timeout expired (before the poll's timer fired), and a poll that ended in Failed, TimedOut or an error
\* returns no descriptor.
C1_AvailableBeforeTimeout ==
    \A p \in Procs :
        /\ ret[p].pv # <<>> =>
              \E i \in DOMAIN calls[p] :
                  /\ calls[p][i].op = "get"
                  /\ calls[p][i].id = ret[p].pv[1].Name
                  /\ calls[p][i].res = "AVAILABLE"
                  /\ ~calls[p][i].closed
        /\ poll[p] \in EndedBadly => ret[p].pv = <<>>

\* C1 amended: a descriptor carrying the created handle is returned only if
\* the last status query for that handle reported AVAILABLE and the poll ended
\* Ready, be that query made before the overall timeout ran out or after it
\* (the poll runs its condition once more when its timer has fired); a poll
\* that ended in Failed, TimedOut or an error returns no descriptor.
C1_DescriptorOnlyIfReady ==
    \A p \in Procs :
        /\ ret[p].pv # <<>> =>
              /\ poll[p] = "Ready"
              /\ ret[p].err = NoError
              /\ ret[p].pv[1].Name = newVolume[p]
              /\ ret[p].pv[1].ociVolumeID = <<newVolume[p]>>
              /\ newVolume[p] # 0
              /\ Gets(p) # <<>>
              /\ Gets(p)[Len(Gets(p))].res = "AVAILABLE"
              /\ Gets(p)[Len(Gets(p))].id = newVolume[p]
        /\ poll[p] \in EndedBadly => ret[p].pv = <<>>
        /\ (pc[p] = "done" /\ poll[p] \in EndedBadly) => ret[p].err # NoError

\* a descriptor returned after a poll whose last status query was the one made
\* after the timer fired
C1_Witness ==
    /\ ret[1].pv # <<>>
    /\ Len(Gets(1)) >= 2
    /\ Gets(1)[1].res = "PROVISIONING"
    /\ Gets(1)[Len(Gets(1))].closed

\* ------------------------------------------------------------------- C2
\* C2: when the poll ended in Failed or TimedOut, exactly one delete call is
\* made, for the created handle, and Provision returns the poll's error
\* whether that delete succeeded or failed.
C2_OneDeleteAndPollError ==
    \A p \in Procs :
        (pc[p] = "done" /\ poll[p] \in {"Failed", "TimedOut"}) =>
            /\ Len(Deletes(p)) = 1
            /\ Deletes(p)[1].id = newVolume[p]
            /\ newVolume[p] # 0
            /\ ret[p].pv = <<>>
            /\ ret[p].err = err[p]
            /\ poll[p] = "TimedOut" => ret[p].err = ErrWaitTimeout
            /\ poll[p] = "Failed" =>
                  /\ ret[p].err.kind = "FailedToProvision"
                  /\ ret[p].err.detail = Gets(p)[Len(Gets(p))].res
                  /\ ret[p].err.detail \in FailedStates

\* Provision returned after a timed out poll whose compensating delete failed
C2_Witness ==
    /\ pc[1] = "done"
    /\ poll[1] = "TimedOut"
    /\ Len(Deletes(1)) = 1
    /\ Deletes(1)[1].res # "ok"
    /\ ret[1].err = ErrWaitTimeout

\* ------------------------------------------------------------------- C3
\* the access modes of a request, as a set
ModeSet(o) == {o.accessModes[i] : i \in DOMAIN o.accessModes}

\* C3 as stated: a request whose access-mode set is not exactly {ReadWriteOnce}
\* (another mode in it, or empty) is rejected, and no client call is made.
C3_RejectsAllButExactlyRWO ==
    \A p \in Procs :
        (pc[p] # "idle" /\ ModeSet(options[p]) # {ReadWriteOnce}) =>
            /\ pc[p] = "done"
            /\ ret[p].pv = <<>>
            /\ ret[p].err.kind = "InvalidAccessMode"
            /\ calls[p] = <<>>

\* C3 amended: a request that names a mode other than ReadWriteOnce is
\* rejected, with the error of the first such mode and no client call made; a
\* request that names no other mode, the one with no mode at all included, is
\* not rejected for its access modes.
C3_RejectsOtherModes ==
    \A p \in Procs :
        /\ (pc[p] # "idle" /\ ModeSet(options[p]) \ {ReadWriteOnce} # {}) =>
              /\ pc[p] = "done"
              /\ ret[p].pv = <<>>
              /\ ret[p].err.kind = "InvalidAccessMode"
              /\ ret[p].err.detail \in ModeSet(options[p]) \ {ReadWriteOnce}
              /\ calls[p] = <<>>
              /\ newVolume[p] = 0
              /\ volumes = {}
        /\ (pc[p] = "done" /\ ModeSet(options[p]) \subseteq {ReadWriteOnce}) =>
              ret[p].err.kind # "InvalidAccessMode"

\* a request naming ReadWriteOnce and then another mode has been rejected
C3_Witness ==
    /\ pc[1] = "done"
    /\ options[1].accessModes = <<ReadWriteOnce, "ReadWriteMany">>
    /\ ret[1].err = Error("InvalidAccessMode", "ReadWriteMany")
    /\ calls[1] = <<>>

\* ------------------------------------------------------------------- C4
\* C4 as stated: when no status query is answered with a terminal state or a
\* transport error (the provider stays in a non-terminal state), the poll ends
\* in TimedOut and in no other way, whatever the overall timeout and the
\* client's per-call timeout are.
C4_OnlyTimedOut ==
    \A p \in Procs :
        (/\ poll[p] \notin {"None", "Polling"}
         /\ \A i \in DOMAIN Gets(p) :
               Gets(p)[i].res \in NonTerminalStates \cup {"DeadlineExceeded"})
        => poll[p] = "TimedOut"

\* ------------------------------------------------------------------- C5
\* the answers the status queries of operation p got, in order
Reports(p) == [i \in DOMAIN Gets(p) |-> Gets(p)[i].res]

\* C5: the poll stops at the first status query that reports AVAILABLE (the
\* poll is Ready) or FAULTY, TERMINATED or TERMINATING (the poll is Failed):
\* no status query follows it.  Any other reported state leaves the poll
\* polling, and the next query waits for the next tick of the 5 second ticker
\* (the n-th query is not made before n-1 intervals have passed), unless the
\* query was the one made after the timer fired.  PROVISIONING, PROVISIONING,
\* AVAILABLE is Ready on the third query; FAULTY is Failed on its query.
C5_StopsAtFirstTerminalReport ==
    \A p \in Procs :
        LET g == Gets(p)
            n == Len(g)
        IN /\ \A i \in 1..n : g[i].res \in TerminalStates => i = n
           /\ (n > 0 /\ g[n].res = "AVAILABLE") => poll[p] = "Ready"
           /\ (n > 0 /\ g[n].res \in FailedStates) =>
                 /\ poll[p] = "Failed"
                 /\ err[p] = Error("FailedToProvision", g[n].res)
           /\ (n > 0 /\ g[n].res \in NonTerminalStates /\ ~g[n].closed) =>
                 /\ poll[p] = "Polling"
                 /\ pc[p] = "wait"
                 /\ nextTick[p] > pollStart[p]
                 /\ (nextTick[p] - pollStart[p]) % PollInterval = 0
           /\ (n > 0 /\ g[n].res \in NonTerminalStates /\ g[n].closed) =>
                 poll[p] = "TimedOut"
           /\ \A i \in 1..n :
                 ~g[i].closed => (i - 1) * PollInterval <= now - pollStart[p]
                                 \/ i = 1
           /\ Reports(p) = <<"PROVISIONING", "PROVISIONING", "AVAILABLE">> =>
                 poll[p] = "Ready"
           /\ (n > 0 /\ g[n].res = "FAULTY") => poll[p] = "Failed"

\* the provider reported PROVISIONING, PROVISIONING, AVAILABLE and the poll is
\* Ready on the third query
C5_Witness ==
    /\ Reports(1) = <<"PROVISIONING", "PROVISIONING", "AVAILABLE">>
    /\ poll[1] = "Ready"
    /\ ~Gets(1)[3].closed

\* ------------------------------------------------------------------- C6
\* C6: Delete returns nil when the delete call answers with the not-found
\* HTTP status or with a provider-level not-found error, and returns the call's
\* error unchanged otherwise.
C6_NotFoundIsSuccess ==
    deletion.resp # <<>> =>
        LET r == deletion.resp[1]
        IN IF r.status = 404 \/ r.err.kind = "NotFound"
           THEN deletion.ret = NoError
           ELSE deletion.ret = r.err

\* Delete returned nil on a 404 answer that came with an error
C6_Witness ==
    /\ deletion.resp # <<>>
    /\ deletion.resp[1].status = 404
    /\ deletion.resp[1].err = TransportError
    /\ deletion.ret = NoError

\* ------------------------------------------------------------------- C7
\* the order of the calls of one Provision: CreateVolume first and once, the
\* status queries after a successful create, a delete or a metadata lookup
\* only as the last call and after a status query
CallsInOrder(p) ==
    LET c == calls[p]
        n == Len(c)
    IN /\ \A i \in 1..n : c[i].op = "create" <=> i = 1
       /\ \A i \in 1..n : c[i].op = "get" => (i > 1 /\ c[1].res = "ok")
       /\ \A i \in 1..n :
             c[i].op \in {"delete", "metadata"} =>
                 (i = n /\ i > 2 /\ c[i - 1].op = "get")
       /\ ret[p].pv # <<>> => (Gets(p) # <<>> /\ pc[p] = "done")
       /\ \A i \in 1..n : c[i].op = "metadata" => poll[p] = "Ready"

\* C7 as stated: the create call completes before the first status query,
\* every status query precedes the construction of the descriptor, and the
\* compensating delete is made only after a poll has ended in Failed or
\* TimedOut.
C7_DeleteOnlyAfterFailedOrTimedOut ==
    \A p \in Procs :
        /\ CallsInOrder(p)
        /\ Deletes(p) # <<>> => poll[p] \in {"Failed", "TimedOut"}

\* C7 amended: the create call completes before the first status query, every
\* status query precedes the construction of the descriptor, and the
\* compensating delete is made only after a poll has ended without being
\* Ready: in Failed, in TimedOut, or in the error of a status query (never
\* before or during polling, never after a Ready poll).
C7_DeleteOnlyAfterEndedPoll ==
    \A p \in Procs :
        /\ CallsInOrder(p)
        /\ Deletes(p) # <<>> =>
              /\ poll[p] \in EndedBadly
              /\ Len(Deletes(p)) = 1
              /\ ret[p].pv = <<>>
        /\ poll[p] \in {"None", "Polling", "Ready"} => Deletes(p) = <<>>

\* the compensating delete was made after a status query failed in transport
C7_Witness ==
    /\ pc[1] = "done"
    /\ poll[1] = "Error"
    /\ Len(calls[1]) = 3
    /\ calls[1][2] = Call("get", newVolume[1], "TransportError", FALSE)
    /\ calls[1][3].op = "delete"

\* ------------------------------------------------------------------- C8
\* the ceiling of a / b in the integers, for a >= 0 and b > 0
Ceiling(a, b) == IF a % b = 0 THEN a \div b ELSE a \div b + 1
\* 1 MiB
MiB == 1048576
\* rounding is on for the request unless its parameter parses as false
RequestRounds(o) == o.roundingParam \notin {<<"false">>}

C9_CeilingDivision ==
    (sizeIn[1] >= 0 /\ sizeIn[2] > 0) =>
        /\ sizeOut * sizeIn[2] >= sizeIn[1]
        /\ sizeOut * sizeIn[2] < sizeIn[1] + sizeIn[2]
        /\ sizeIn[1] = 0 => sizeOut = 0

\* ------------------------------------------------------------------ C10
\* the error a call's logged result stands for
ErrorOfKind(k) ==
    CASE k = "TransportError" -> TransportError
      [] k = "DeadlineExceeded" -> DeadlineExceeded
      [] k = "ServiceError" -> ServiceError("400")
      [] k = "MetadataError" -> MetadataError
      [] OTHER -> NoError

\* what Provision returns when it runs alone on request o, under configuration
\* blk and region override env, and its calls get the answers logged in cs
AloneResult(o, blk, env, cs) ==
    LET other == {i \in DOMAIN o.accessModes : o.accessModes[i] # ReadWriteOnce}
        n == Len(cs)
        cap == IF /\ blk.volumeRoundingEnabled
                  /\ RequestRounds(o)
                  /\ o.storage[1] < blk.minVolumeSize
               THEN blk.minVolumeSize ELSE o.storage[1]
        pvOf(region) ==
            [Name |-> cs[1].id, ociVolumeID |-> <<cs[1].id>>, Region |-> region,
             AccessModes |-> o.accessModes, Capacity |-> cap,
             FSType |-> IF o.fsType = <<>> THEN "ext4" ELSE o.fsType[1]]
        failed(e) == [pv |-> <<>>, err |-> e]
    IN IF other # {}
       THEN failed(Error("InvalidAccessMode",
                         o.accessModes[CHOOSE i \in other : \A j \in other : i <= j]))
       ELSE IF o.storage = <<>> THEN failed(Error("NoVolumeSize", ""))
       ELSE IF cs[1].res # "ok" THEN failed(ErrorOfKind(cs[1].res))
       ELSE IF cs[n].op = "metadata"
       THEN IF cs[n].res = "ok"
            THEN [pv |-> <<pvOf("us-phoenix-1")>>, err |-> NoError]
            ELSE failed(MetadataError)
       ELSE IF cs[n].op = "get"
       THEN [pv |-> <<pvOf(env[1])>>, err |-> NoError]
       ELSE LET last == cs[n - 1].res
            IN IF last \in FailedStates
               THEN failed(Error("FailedToProvision", last))
               ELSE IF last \in NonTerminalStates THEN failed(ErrWaitTimeout)
               ELSE failed(Error("FailedToProvision", ErrorOfKind(last).detail))

\* the status queries and the delete of operation p ask for the volume its own
\* CreateVolume returned, and no two operations got the same volume
OwnHandleOnly(p) ==
    /\ \A i \in DOMAIN calls[p] :
          calls[p][i].op \in {"get", "delete"} =>
              /\ calls[p][1].op = "create"
              /\ calls[p][1].res = "ok"
              /\ calls[p][i].id = calls[p][1].id
              /\ calls[p][i].id # 0
    /\ \A q \in Procs \ {p} :
          (calls[p] # <<>> /\ calls[q] # <<>> /\ calls[p][1].id # 0) =>
              calls[p][1].id # calls[q][1].id

\* C10: when Provision operations run concurrently on one provisioner, the
\* status queries and the compensating delete of each ask only for the handle
\* its own create call returned, each returns what it returns when run alone on
\* the same answers, and the shared configuration is never modified.
C10_ConcurrentOperationsIndependent ==
    /\ [](\A p \in Procs :
            /\ OwnHandleOnly(p)
            /\ pc[p] = "done" =>
                  ret[p] = AloneResult(options[p], block, environ, calls[p]))
    /\ [][block' = block /\ environ' = environ]_vars

\* two operations interleaved: the second created its volume first, polled
\* twice and failed, the first created its volume later and returned a
\* descriptor for it
C10_Witness ==
    /\ pc[1] = "done"
    /\ pc[2] = "done"
    /\ newVolume[2] = 1
    /\ newVolume[1] = 2
    /\ poll[2] = "Failed"
    /\ Len(Gets(2)) = 2
    /\ Deletes(2) # <<>>
    /\ Deletes(2)[1].id = 1
    /\ ret[1].pv # <<>>
    /\ ret[1].pv[1].Name = 2

\* ------------------------------------------------------------------ C11
\* the answers the calls of operation p got: which call, what answer, and
\* whether the poll's timer had fired
Answers(p) ==
    [i \in DOMAIN calls[p] |->
        [op |-> calls[p][i].op, res |-> calls[p][i].res,
         closed |-> calls[p][i].closed]]

\* a result with the handle taken out of its descriptor
WithoutHandle(r) ==
    IF r.pv = <<>> THEN r
    ELSE [r EXCEPT !.pv = <<[r.pv[1] EXCEPT !.Name = 0, !.ociVolumeID = <<0>>]>>]

\* a request with the backup annotation taken out
WithoutBackup(o) == [o EXCEPT !.backup = <<>>]

\* C11: of two Provision runs on requests that differ only in the backup
\* annotation, the creation payload carries the source-from-backup clause with
\* the annotation's identifier exactly when the annotation is present, the
\* payloads are otherwise the same, and when the two runs got the same answers
\* from the provider they return the same error, or descriptors that differ in
\* nothing but the handle each one's own create call returned.
C11_BackupOnlyChangesPayload ==
    /\ WithoutBackup(options[1]) = WithoutBackup(options[2])
    /\ \A p \in Procs :
          volumeDetails[p] # <<>> =>
              /\ volumeDetails[p][1].SourceDetails = options[p].backup
              /\ volumeDetails[p][1].SizeInMBs =
                    roundUpSize(capacity[p], AllocationUnit)
    /\ (volumeDetails[1] # <<>> /\ volumeDetails[2] # <<>>) =>
          /\ volumeDetails[1][1].SourceDetails = <<>>
          /\ volumeDetails[2][1].SourceDetails = <<"backup-1">>
          /\ volumeDetails[1][1].SizeInMBs = volumeDetails[2][1].SizeInMBs
    /\ (pc[1] = "done" /\ pc[2] = "done" /\ Answers(1) = Answers(2)) =>
          /\ WithoutHandle(ret[1]) = WithoutHandle(ret[2])
          /\ \A p \in Procs :
                ret[p].pv # <<>> => ret[p].pv[1].Name = newVolume[p]

\* both runs got the same answers, PROVISIONING and then AVAILABLE, and both
\* returned a descriptor; only the second payload names the backup
C11_Witness ==
    /\ pc[1] = "done"
    /\ pc[2] = "done"
    /\ Answers(1) = Answers(2)
    /\ Len(Gets(1)) = 2
    /\ ret[1].pv # <<>>
    /\ ret[2].pv # <<>>
    /\ ret[1].pv[1].Name # ret[2].pv[1].Name
    /\ volumeDetails[1][1].SourceDetails = <<>>
    /\ volumeDetails[2][1].SourceDetails = <<"backup-1">>

\* ------------------------------------------------------------------ C12
\* operation p makes a status query in this step
QueryStep(p) ==
    /\ Len(calls'[p]) = Len(calls[p]) + 1
    /\ calls'[p][Len(calls'[p])].op = "get"

\* the deadline of the context the status query of operation p runs under when
\* it is made now (line 105)
QueryDeadline(p) == WithTimeout(ctxDeadline[p], block.clientTimeout, now)

\* C12 as stated: every status query has the client's whole per-call timeout
\* from the instant it starts, whatever the overall timeout is and however
\* long ago the create call was issued; a query made while the overall timeout
\* has not run out is not cut short by an earlier deadline.
C12_FullBudgetPerQuery ==
    [][\A p \in Procs :
          (QueryStep(p) /\ ~TimerFired(p)) =>
              QueryDeadline(p) = now + block.clientTimeout]_vars

\* ------------------------------------------------------------------ C13
\* C13: when the create call returns an error, Provision returns that error
\* at once, without a descriptor, and makes no status query, no delete call
\* and no metadata lookup: the failed create call is its only call, and no
\* volume exists at the provider.
C13_CreateErrorAborts ==
    \A p \in Procs :
        (calls[p] # <<>> /\ calls[p][1].op = "create" /\ calls[p][1].res # "ok") =>
            /\ Len(calls[p]) = 1
            /\ pc[p] = "done"
            /\ ret[p].pv = <<>>
            /\ ret[p].err # NoError
            /\ ret[p].err.kind = calls[p][1].res
            /\ ret[p].err \in {ServiceError("400"), TransportError, DeadlineExceeded}
            /\ poll[p] = "None"
            /\ newVolume[p] = 0
            /\ volumes = {}

\* the create call was refused by the service and Provision returned its error
C13_Witness ==
    /\ pc[1] = "done"
    /\ calls[1] = <<Call("create", 0, "ServiceError", FALSE)>>
    /\ ret[1] = [pv |-> <<>>, err |-> ServiceError("400")]

\* ------------------------------------------------------------------ C14
\* the results of a status query that failed: in transport, or because the
\* deadline of its context had passed
QueryErrors == {"TransportError", "DeadlineExceeded"}

\* C14: a status query that returns a transport-level error ends the poll at
\* that query: the poll's result is that error (wrapped as "failed to
\* provision volume"), no status query follows it, and the poll is never Ready
\* afterwards, so no descriptor is returned.
C14_QueryErrorEndsPoll ==
    \A p \in Procs :
        LET g == Gets(p)
            n == Len(g)
        IN \A i \in 1..n :
              g[i].res \in QueryErrors =>
                  /\ i = n
                  /\ poll[p] = "Error"
                  /\ err[p] = Error("FailedToProvision", ErrorOfKind(g[i].res).detail)
                  /\ pc[p] \in {"cleanup", "done"}
                  /\ ret[p].pv = <<>>
                  /\ pc[p] = "done" => ret[p].err = err[p]

\* the second status query failed in transport: the poll ended there and
\* Provision returned the error
C14_Witness ==
    /\ pc[1] = "done"
    /\ Reports(1) = <<"PROVISIONING", "TransportError">>
    /\ poll[1] = "Error"
    /\ ret[1] = [pv |-> <<>>, err |-> Error("FailedToProvision", "connection reset")]

\* ------------------------------------------------------------------ C15
\* the metadata lookups operation p has made
Lookups(p) == SelectSeq(calls[p], LAMBDA c : c.op = "metadata")

\* C15: when the poll ended Ready, no region override is set and the metadata
\* lookup fails, Provision returns the lookup's error and no descriptor and
\* makes no delete call, so the volume it created still exists at the
\* provider when it returns; when the region override is set no metadata
\* lookup is made, and the descriptor carries the override.
C15_LookupFailureOrphansVolume ==
    \A p \in Procs :
        /\ (/\ Lookups(p) # <<>>
            /\ Lookups(p)[1].res # "ok") =>
              /\ poll[p] = "Ready"
              /\ environ = <<>>
              /\ pc[p] = "done"
              /\ ret[p] = [pv |-> <<>>, err |-> MetadataError]
              /\ Deletes(p) = <<>>
              /\ newVolume[p] # 0
              /\ newVolume[p] \in volumes
        /\ (pc[p] = "done" /\ poll[p] = "Ready" /\ environ = <<>>) =>
              Len(Lookups(p)) = 1
        /\ environ # <<>> =>
              /\ Lookups(p) = <<>>
              /\ ret[p].pv # <<>> => ret[p].pv[1].Region = environ[1]

\* a Ready poll, no override, a failed lookup: an error is returned and the
\* volume is still there
C15_Witness ==
    /\ pc[1] = "done"
    /\ poll[1] = "Ready"
    /\ environ = <<>>
    /\ Lookups(1) = <<Call("metadata", 0, "MetadataError", FALSE)>>
    /\ ret[1] = [pv |-> <<>>, err |-> MetadataError]
    /\ volumes = {newVolume[1]}

\* ------------------------------------------------------------------ C16
\* C16: an invocation of Delete on a descriptor without the volume-handle
\* annotation makes no delete call and returns the consistency error; on any
\* other descriptor it makes exactly one delete call, for the handle of the
\* annotation, whatever the call's outcome.
C16_OneDeleteCallOrNone ==
    deletion.volume # <<>> =>
        LET v == deletion.volume[1]
        IN IF v.ociVolumeID = <<>>
           THEN /\ deletion.calls = <<>>
                /\ deletion.resp = <<>>
                /\ deletion.ret =
                      Error("AnnotationNotFound", "volumeid annotation not found on PV")
           ELSE /\ Len(deletion.calls) = 1
                /\ deletion.calls[1].op = "delete"
                /\ deletion.calls[1].id = v.ociVolumeID[1]
                /\ deletion.resp # <<>>
                /\ deletion.calls[1].res = ResultOf(deletion.resp[1].err)

\* Delete made one delete call, it failed in transport, and Delete returned
\* the error without a second call
C16_Witness ==
    /\ deletion.volume # <<>>
    /\ deletion.volume[1].ociVolumeID = <<2>>
    /\ deletion.calls = <<Call("delete", 2, "TransportError", FALSE)>>
    /\ deletion.resp[1].status = 500
    /\ deletion.ret = TransportError

\* ------------------------------------------------------------------ C17
\* C17: every Provision call returns in the end, a descriptor or an error,
\* whatever the provider answers, when each client call returns and the
\* overall timeout is finite: the poll does not run forever.
C17_ProvisionReturns ==
    \A p \in Procs :
        (p \in procs) ~>
            (/\ pc[p] = "done"
             /\ (ret[p].pv # <<>> \/ ret[p].err # NoError))

\* the provider reported PROVISIONING at every one of three or more status
\* queries, the poll timed out and Provision returned
C17_Witness ==
    /\ pc[1] = "done"
    /\ poll[1] = "TimedOut"
    /\ Len(Gets(1)) >= 3
    /\ \A i \in DOMAIN Gets(1) : Gets(1)[i].res = "PROVISIONING"
    /\ ret[1].err = ErrWaitTimeout

\* ------------------------------------------------------------------ C18
\* the errors Provision returns for a state the provider reported as failed
LifecycleErrors == {Error("FailedToProvision", st) : st \in FailedStates}

\* C18: the error Provision returns after a poll that timed out in a state
\* that is not terminal is wait.ErrWaitTimeout and none of the errors it
\* returns for a reported FAULTY, TERMINATED or TERMINATING, and the error it
\* returns after a Failed poll is one of those and not the timeout error.
C18_TimeoutAndFailureDistinct ==
    /\ ErrWaitTimeout \notin LifecycleErrors
    /\ \A p \in Procs :
          /\ (pc[p] = "done" /\ poll[p] = "TimedOut") =>
                /\ ret[p].err = ErrWaitTimeout
                /\ ret[p].err \notin LifecycleErrors
                /\ Gets(p)[Len(Gets(p))].res \in NonTerminalStates
          /\ (pc[p] = "done" /\ poll[p] = "Failed") =>
                /\ ret[p].err \in LifecycleErrors
                /\ ret[p].err # ErrWaitTimeout
                /\ ret[p].err.detail = Gets(p)[Len(Gets(p))].res

\* the provider reported FAULTY at the query made after the timer fired:
\* Provision returned the lifecycle error, not the timeout error
C18_Witness ==
    /\ pc[1] = "done"
    /\ poll[1] = "Failed"
    /\ Gets(1)[Len(Gets(1))].closed
    /\ Gets(1)[Len(Gets(1))].res = "FAULTY"
    /\ ret[1].err = Error("FailedToProvision", "FAULTY")

\* ------------------------------------------------------------------ C19
\* C19: the compensating delete follows every error result of the poll, not
\* only Failed and TimedOut: when a status query fails with a transport-level
\* error after a successful create, Provision makes exactly one delete call,
\* for the created handle, and returns the poll's error.
C19_DeleteAfterQueryError ==
    \A p \in Procs :
        (pc[p] = "done" /\ poll[p] = "Error") =>
            /\ calls[p][1] = Call("create", newVolume[p], "ok", FALSE)
            /\ Gets(p)[Len(Gets(p))].res \in QueryErrors
            /\ Len(Deletes(p)) = 1
            /\ Deletes(p)[1].id = newVolume[p]
            /\ calls[p][Len(calls[p])].op = "delete"
            /\ ret[p].pv = <<>>
            /\ ret[p].err = err[p]
            /\ ret[p].err =
                  Error("FailedToProvision",
                        ErrorOfKind(Gets(p)[Len(Gets(p))].res).detail)

\* a status query failed in transport, the delete that followed failed too,
\* and Provision returned the error of the query
C19_Witness ==
    /\ pc[1] = "done"
    /\ Reports(1) = <<"PROVISIONING", "TransportError">>
    /\ Len(Deletes(1)) = 1
    /\ Deletes(1)[1] = Call("delete", newVolume[1], "TransportError", FALSE)
    /\ ret[1].err = Error("FailedToProvision", "connection reset")
    /\ volumes = {newVolume[1]}

====
